---- MODULE Spec2Model ----
(***************************************************************************)
(* The RAG turn pipeline of the Tokyo Guide backend                        *)
(* (backend/app/services/rag.py and the services it calls), as a state     *)
(* machine.  A turn is one call of answer_question; each of its calls      *)
(* (encode_text, vector_search, get_session, create_session,               *)
(* generate_response, generate_suggested_questions,                        *)
(* update_session_messages) is one step, so that turns running in          *)
(* different workers interleave at exactly those calls.                    *)
(*                                                                         *)
(* Spec runs the turns of one worker one after another, with every outcome *)
(* of every collaborator.  SpecConc runs the turns of two workers against  *)
(* the same session store, with fewer outcomes per call.  SpecTelegram     *)
(* runs the turns the Telegram handlers start, next to web turns on the    *)
(* sessions there are.  SpecFn calls the services, the entry points and    *)
(* the error handler of the chat endpoint on their own.                    *)
(***************************************************************************)
EXTENDS Integers, Sequences, FiniteSets, TLC

\* ------------------------------------------------------------------ bounds

\* Turns started in one behaviour.
MaxTurns == 3
\* Rows of chat_sessions in one behaviour.
MaxSessions == 2
\* Exchanges already on session "s1" in the populated initial store.
PriorTurns == 3

\* Characters of a provider output given to generate_suggested_questions on its own.
MaxRawLen == 7

\* Texts given to encode_batch on its own, and its largest batch_size.
MaxTexts == 4
MaxBatchSize == 3

\* Chunks of an exception text given to the error handler of the chat endpoint.
MaxErrorLen == 2

\* Passages given to the context assembly on its own; their body lengths lie
\* within LenSpread of the maximum, their titles have up to MaxTitleLen characters.
MaxPassages == 2
LenSpread == 1
MaxTitleLen == 40

\* Concurrent turns (workers).
Tasks == {1, 2}
\* Question texts: the n-th turn of a behaviour asks the n-th of them.
QuestionTexts == <<"q1", "q2", "q3", "q4", "q5">>
\* The identifiers the store hands out, in order (opaque, store-generated).
StoreIds == <<"s1", "s2", "s3", "s4">>
\* An identifier the store never issued (a stale or made-up one).
StaleSid == "stale"

\* ------------------------------------------------------- program constants

\* chat_history[-10:]
HistoryCap == 10
\* chat_history[-6:]
PromptHistory == 6
\* _call_hf_api(texts, retries=3)
Retries == 3
\* time.sleep(5) after an error payload, time.sleep(3) after an exception
SleepErrorPayload == 5
SleepException == 3
\* max_content_per_source
MaxContentPerSource == 2000

\* ChatRequest.question: Field(..., min_length=1, max_length=2000)
MinQuestionLength == 1
MaxQuestionLength == 2000
\* "Telegram message limit (4096 chars)"
TelegramMessageLimit == 4096
\* len() of the question of itinerary_command without the number of days.
ItineraryTextLength == 85

\* Settings.rag_max_completion_tokens, and the max_completion_tokens of the
\* suggestions request.
DefaultMaxCompletionTokens == 4096
SuggestionMaxCompletionTokens == 512

\* Python's None for an Optional[str] session_id, and for message.content.
NoneSid == "<None>"
NoneContent == "<None>"

\* "return answer or <this>": the provider answered with no content.
FallbackNoContent == "sorry-could-not-create-an-answer-try-again"
\* "except Exception: return <this>": the provider call raised.
FallbackError == "sorry-an-error-occurred-processing-the-question-try-again-shortly"
\* generate_response substitutes this for an empty context.
NoInfoMarker == "no-specific-information-available"
\* The three default follow-up questions of generate_suggested_questions
\* (a question is a sequence of characters; each of these is one symbol).
DefaultSuggestions ==
    << <<"what-to-eat-in-tokyo">>, <<"how-to-use-public-transport">>,
       <<"which-neighbourhoods-to-visit">> >>

\* ----------------------------------------------------------------- helpers

\* s[-n:] of Python, for n > 0.
LastN(s, n) == IF Len(s) <= n THEN s ELSE SubSeq(s, Len(s) - n + 1, Len(s))

\* s[:n] of Python.
FirstN(s, n) == IF Len(s) <= n THEN s ELSE SubSeq(s, 1, n)

\* How often x occurs in the sequence s.
Count(s, x) == Cardinality({i \in DOMAIN s : s[i] = x})

\* {"role": role, "content": content}
Msg(role, content) == [role |-> role, content |-> content]

\* "if session_id:" -- None and the empty string are falsy.
Truthy(s) == s # NoneSid /\ s # ""

\* ------------------------------------------------------ embedding provider

\* What one POST to the inference endpoint may do.
HfOutcomes == {"ok", "error_payload", "timeout", "http_error"}

\* One outcome per attempt of a call.
HfScripts == [1..Retries -> HfOutcomes]

\* The message of the exception the last attempt of _call_hf_api raises.
HfError(outcome) ==
    CASE outcome = "error_payload" -> "HF API error: <payload>"
      [] outcome = "timeout"       -> "<httpx timeout>"
      [] OTHER                     -> "<httpx status error>"

\* The loop of _call_hf_api from attempt number `attempt` (0-based) on.
RECURSIVE HfLoop(_, _, _, _)
HfLoop(script, attempt, posts, delays) ==
    IF attempt >= Retries
    THEN [raised |-> TRUE, error |-> "HF API failed after all retries",
          posts |-> posts, delays |-> delays]
    ELSE IF script[attempt + 1] = "ok"
    THEN [raised |-> FALSE, error |-> "", posts |-> posts + 1, delays |-> delays]
    ELSE IF attempt < Retries - 1
    THEN HfLoop(script, attempt + 1, posts + 1,
                Append(delays, IF script[attempt + 1] = "error_payload"
                               THEN SleepErrorPayload ELSE SleepException))
    ELSE [raised |-> TRUE, error |-> HfError(script[attempt + 1]),
          posts |-> posts + 1, delays |-> delays]

ModelNotLoaded == "Embedding model not loaded. Call load_model() first."

\* A call that starts at the second attempt.
CallHfApi_SkipFirst(script) == HfLoop(script, 1, 0, <<>>)

\* _call_hf_api(texts) with the default retries.
CallHfApi(script) == HfLoop(script, 0, 0, <<>>)

\* The embedding of a text: what the endpoint, or the local model, computes for it.
Vec(text) == <<"embedding", text>>

\* The endpoint's result for a list of texts: one embedding each, in order.
ApiEmbeddings(texts) == [k \in DOMAIN texts |-> Vec(texts[k])]

\* An encode_text that runs the local model whether or not it is loaded.
EncodeText_NoGuard(use_api, loaded, text, script) ==
    IF use_api
    THEN LET r == CallHfApi(script)
         IN  [raised |-> r.raised, error |-> r.error, posts |-> r.posts, delays |-> r.delays,
              model_calls |-> 0,
              vector |-> IF r.raised THEN <<>> ELSE ApiEmbeddings(<<text>>)[1]]
    ELSE [raised |-> FALSE, error |-> "", posts |-> 0, delays |-> <<>>,
          model_calls |-> 1, vector |-> Vec(text)]

\* encode_text: the API when _use_api, else the local model, which must be loaded.
EncodeText(use_api, loaded, text, script) ==
    IF use_api
    THEN LET r == CallHfApi(script)
         IN  [raised |-> r.raised, error |-> r.error, posts |-> r.posts, delays |-> r.delays,
              model_calls |-> 0,
              vector |-> IF r.raised THEN <<>> ELSE ApiEmbeddings(<<text>>)[1]]
    ELSE IF ~loaded
    THEN [raised |-> TRUE, error |-> ModelNotLoaded, posts |-> 0, delays |-> <<>>,
          model_calls |-> 0, vector |-> <<>>]
    ELSE [raised |-> FALSE, error |-> "", posts |-> 0, delays |-> <<>>,
          model_calls |-> 1, vector |-> Vec(text)]

\* texts[i:i + batch_size], i counted from 0.
Slice(texts, i, batch_size) ==
    SubSeq(texts, i + 1, IF i + batch_size < Len(texts) THEN i + batch_size ELSE Len(texts))

\* A loop whose next batch starts one text early.
RECURSIVE BatchLoop_Overlap(_, _, _, _, _, _)
BatchLoop_Overlap(texts, batch_size, scripts, i, batches, all_embeddings) ==
    IF i >= Len(texts)
    THEN [raised |-> FALSE, error |-> "", batches |-> batches, model_calls |-> 0,
          vectors |-> all_embeddings]
    ELSE LET batch == Slice(texts, IF i > 0 THEN i - 1 ELSE i, batch_size)
             r == CallHfApi(scripts[Len(batches) + 1])
         IN  IF r.raised
             THEN [raised |-> TRUE, error |-> r.error, batches |-> Append(batches, batch),
                   model_calls |-> 0, vectors |-> <<>>]
             ELSE BatchLoop_Overlap(texts, batch_size, scripts, i + batch_size,
                                    Append(batches, batch), all_embeddings \o ApiEmbeddings(batch))

\* The loop of encode_batch in API mode, from offset i on; scripts gives the
\* script of each call of _call_hf_api in turn.
RECURSIVE BatchLoop(_, _, _, _, _, _)
BatchLoop(texts, batch_size, scripts, i, batches, all_embeddings) ==
    IF i >= Len(texts)
    THEN [raised |-> FALSE, error |-> "", batches |-> batches, model_calls |-> 0,
          vectors |-> all_embeddings]
    ELSE LET batch == Slice(texts, i, batch_size)
             r == CallHfApi(scripts[Len(batches) + 1])
         IN  IF r.raised
             THEN [raised |-> TRUE, error |-> r.error, batches |-> Append(batches, batch),
                   model_calls |-> 0, vectors |-> <<>>]
             ELSE BatchLoop(texts, batch_size, scripts, i + batch_size,
                            Append(batches, batch), all_embeddings \o ApiEmbeddings(batch))

\* encode_batch: batches through the API when _use_api, else one call of the
\* local model, which must be loaded.
EncodeBatch(use_api, loaded, texts, batch_size, scripts) ==
    IF use_api THEN BatchLoop(texts, batch_size, scripts, 0, <<>>, <<>>)
    ELSE IF ~loaded
    THEN [raised |-> TRUE, error |-> ModelNotLoaded, batches |-> <<>>, model_calls |-> 0,
          vectors |-> <<>>]
    ELSE [raised |-> FALSE, error |-> "", batches |-> <<>>, model_calls |-> 1,
          vectors |-> [k \in DOMAIN texts |-> Vec(texts[k])]]

\* --------------------------------------------------------------- retrieval

\* Rows of match_documents: the lengths of title_hebrew and content_hebrew in
\* characters, similarity in 1/10000.
Passage1 == [id |-> "d1", title |-> "Shibuya", title_len |-> 7, content_len |-> 1500,
             similarity |-> 8126]
Passage2 == [id |-> "d2", title |-> "Asakusa", title_len |-> 7, content_len |-> 2600,
             similarity |-> 6349]

\* What the match_documents RPC may do: raise, or return its data.
SearchOutcomes ==
    { [rpc_raised |-> TRUE,  data |-> <<>>],
      [rpc_raised |-> FALSE, data |-> <<>>],
      [rpc_raised |-> FALSE, data |-> <<Passage1, Passage2>>] }

\* A vector_search that lets the RPC's exception out.
VectorSearch_Propagates(outcome) ==
    [raised |-> outcome.rpc_raised, results |-> IF outcome.rpc_raised THEN <<>> ELSE outcome.data]

\* vector_search after the client is there: "result.data or []", [] on any exception.
VectorSearch(outcome) ==
    [raised |-> FALSE, results |-> IF outcome.rpc_raised THEN <<>> ELSE outcome.data]

\* round(similarity, 3), on 1/10000 units, giving 1/1000 units (ties to even).
Round3(x) ==
    LET q == x \div 10
        r == x % 10
    IN  IF r > 5 \/ (r = 5 /\ q % 2 = 1) THEN q + 1 ELSE q

\* A part that also marks a body of exactly the maximum length.
ContextBody_CutAtMax(result) ==
    IF result.content_len >= MaxContentPerSource
    THEN [title |-> result.title, title_len |-> result.title_len,
          kept |-> MaxContentPerSource, ellipsis |-> TRUE,
          content_len |-> MaxContentPerSource + 3, truncated |-> TRUE]
    ELSE [title |-> result.title, title_len |-> result.title_len,
          kept |-> result.content_len, ellipsis |-> FALSE,
          content_len |-> result.content_len, truncated |-> FALSE]

\* One "## title\ncontent" part: how many characters of the body it keeps
\* (from the first on), whether "..." follows them, and the length of the
\* content placed in the part.
ContextBody(result) ==
    IF result.content_len > MaxContentPerSource
    THEN [title |-> result.title, title_len |-> result.title_len,
          kept |-> MaxContentPerSource, ellipsis |-> TRUE,
          content_len |-> MaxContentPerSource + 3, truncated |-> TRUE]
    ELSE [title |-> result.title, title_len |-> result.title_len,
          kept |-> result.content_len, ellipsis |-> FALSE,
          content_len |-> result.content_len, truncated |-> FALSE]

\* The joined context, as the sequence of its parts; <<>> is the empty string.
BuildContext(search_results) ==
    [i \in DOMAIN search_results |-> ContextBody(search_results[i])]

\* len("## " + title + "\n" + content)
PartLength(part) == 3 + part.title_len + 1 + part.content_len

\* len("\n\n---\n\n")
JoinLength == 7

\* len(context)
RECURSIVE ContextLength(_)
ContextLength(context) ==
    IF context = <<>> THEN 0
    ELSE IF Len(context) = 1 THEN PartLength(context[1])
    ELSE PartLength(Head(context)) + JoinLength + ContextLength(Tail(context))

\* A sources list in the opposite order.
BuildSources_Reversed(search_results) ==
    [i \in DOMAIN search_results |->
        [id |-> search_results[Len(search_results) + 1 - i].id,
         title |-> search_results[Len(search_results) + 1 - i].title,
         similarity |-> Round3(search_results[Len(search_results) + 1 - i].similarity)]]

\* One SourceReference per result, in order.
BuildSources(search_results) ==
    [i \in DOMAIN search_results |->
        [id |-> search_results[i].id, title |-> search_results[i].title,
         similarity |-> Round3(search_results[i].similarity)]]

\* -------------------------------------------------------- answer generator

\* What chat.completions.create may do for the answer: raise, or return content.
AnswerOutcomes ==
    { [raised |-> TRUE,  content |-> NoneContent],
      [raised |-> FALSE, content |-> "a1"],
      [raised |-> FALSE, content |-> ""],
      [raised |-> FALSE, content |-> NoneContent] }

\* A system message that formats the context as it is.
SystemMessage_NoMarker(context) ==
    [role |-> "system",
     content |-> [template |-> "SYSTEM_PROMPT_TEMPLATE",
                  context |-> [text |-> "context", parts |-> context]]]

\* SYSTEM_PROMPT_TEMPLATE.format(context=context if context else marker).
\* The context section is either the joined parts or the marker's text.
SystemMessage(context) ==
    [role |-> "system",
     content |-> [template |-> "SYSTEM_PROMPT_TEMPLATE",
                  context |-> IF context # <<>>
                              THEN [text |-> "context", parts |-> context]
                              ELSE [text |-> NoInfoMarker, parts |-> <<>>]]]

\* A message list that carries the whole history.
BuildMessages_AllHistory(context, question, chat_history) ==
    <<SystemMessage(context)>> \o chat_history \o <<Msg("user", question)>>

\* The message list handed to the provider.
BuildMessages(context, question, chat_history) ==
    <<SystemMessage(context)>> \o LastN(chat_history, PromptHistory) \o <<Msg("user", question)>>

\* A generate_response without "or <fallback>" on the provider's content.
GenerateResponse_NoFallback(context, question, chat_history, has_effort, outcome) ==
    LET messages == BuildMessages(context, question, chat_history)
    IN  IF ~has_effort
        THEN [raised |-> FALSE, called |-> FALSE, messages |-> messages, answer |-> FallbackError]
        ELSE IF outcome.raised
        THEN [raised |-> FALSE, called |-> TRUE, messages |-> messages, answer |-> FallbackError]
        ELSE [raised |-> FALSE, called |-> TRUE, messages |-> messages,
              answer |-> IF outcome.content = NoneContent THEN "" ELSE outcome.content]

\* A generate_response without the except clause around the provider call.
GenerateResponse_Propagates(context, question, chat_history, has_effort, outcome) ==
    LET messages == BuildMessages(context, question, chat_history)
    IN  IF ~has_effort
        THEN [raised |-> TRUE, called |-> FALSE, messages |-> messages, answer |-> ""]
        ELSE IF outcome.raised
        THEN [raised |-> TRUE, called |-> TRUE, messages |-> messages, answer |-> ""]
        ELSE [raised |-> FALSE, called |-> TRUE, messages |-> messages,
              answer |-> IF outcome.content = NoneContent \/ outcome.content = ""
                         THEN FallbackNoContent ELSE outcome.content]

\* generate_response once the client is there.  Reading
\* settings.rag_reasoning_effort is part of the guarded call: where the
\* settings object has no such attribute the provider is never reached.
GenerateResponse(context, question, chat_history, has_effort, outcome) ==
    LET messages == BuildMessages(context, question, chat_history)
    IN  IF ~has_effort
        THEN [raised |-> FALSE, called |-> FALSE, messages |-> messages, answer |-> FallbackError]
        ELSE IF outcome.raised
        THEN [raised |-> FALSE, called |-> TRUE, messages |-> messages, answer |-> FallbackError]
        ELSE [raised |-> FALSE, called |-> TRUE, messages |-> messages,
              answer |-> IF outcome.content = NoneContent \/ outcome.content = ""
                         THEN FallbackNoContent ELSE outcome.content]

\* Text is a sequence of characters; these are the ones str.strip() removes.
Whitespace == {" ", "\n"}

\* str.lstrip() and str.rstrip()
RECURSIVE LStrip(_)
LStrip(text) == IF text # <<>> /\ Head(text) \in Whitespace THEN LStrip(Tail(text)) ELSE text

RECURSIVE RStrip(_)
RStrip(text) ==
    IF text # <<>> /\ text[Len(text)] \in Whitespace
    THEN RStrip(SubSeq(text, 1, Len(text) - 1)) ELSE text

\* str.strip()
Strip(text) == RStrip(LStrip(text))

\* str.split("\n"): the pieces between the newlines, at least one piece.
RECURSIVE SplitLines(_)
SplitLines(text) ==
    IF \A i \in DOMAIN text : text[i] # "\n" THEN <<text>>
    ELSE LET k == CHOOSE i \in DOMAIN text : text[i] = "\n" /\ \A j \in 1..(i - 1) : text[j] # "\n"
         IN  <<SubSeq(text, 1, k - 1)>> \o SplitLines(SubSeq(text, k + 1, Len(text)))

\* What chat.completions.create may do for the suggestions: raise, or return
\* content, which may be None.
SuggestionOutcomes ==
    { [raised |-> TRUE,  none |-> FALSE, content |-> <<>>],
      [raised |-> FALSE, none |-> TRUE,  content |-> <<>>],
      [raised |-> FALSE, none |-> FALSE,
       content |-> <<"f", "\n", " ", "\n", " ", "g", " ", "\n", "\n", "h", "\n", "i">>],
      [raised |-> FALSE, none |-> FALSE, content |-> <<"f", "\n", "g">>] }

\* [line.strip() for line in lines if line.strip()]
RECURSIVE StripNonBlank(_)
StripNonBlank(lines) ==
    IF lines = <<>> THEN <<>>
    ELSE IF Strip(Head(lines)) = <<>> THEN StripNonBlank(Tail(lines))
    ELSE <<Strip(Head(lines))>> \o StripNonBlank(Tail(lines))

\* A generate_suggested_questions that keeps the blank lines.
GenerateSuggestedQuestions_KeepBlank(has_effort, outcome) ==
    IF ~has_effort THEN [raised |-> FALSE, called |-> FALSE, suggested |-> DefaultSuggestions]
    ELSE IF outcome.raised THEN [raised |-> FALSE, called |-> TRUE, suggested |-> DefaultSuggestions]
    ELSE [raised |-> FALSE, called |-> TRUE,
          suggested |-> FirstN(SplitLines(Strip(IF outcome.none THEN <<>> ELSE outcome.content)), 3)]

\* generate_suggested_questions once the client is there.
GenerateSuggestedQuestions(has_effort, outcome) ==
    IF ~has_effort THEN [raised |-> FALSE, called |-> FALSE, suggested |-> DefaultSuggestions]
    ELSE IF outcome.raised THEN [raised |-> FALSE, called |-> TRUE, suggested |-> DefaultSuggestions]
    ELSE [raised |-> FALSE, called |-> TRUE,
          suggested |-> FirstN(StripNonBlank(SplitLines(Strip(
                            IF outcome.none THEN <<>> ELSE outcome.content))), 3)]

\* ----------------------------------------------------------- session store

\* get_session: the row, or None when the select raises (no row, or a failure).
GetSession(store, session_id, select_raised) ==
    IF select_raised \/ session_id \notin DOMAIN store
    THEN [found |-> FALSE, messages |-> <<>>]
    ELSE [found |-> TRUE, messages |-> store[session_id]]

\* An orchestrator that starts every turn from an empty history.
SessionHistory_Empty(session) == <<>>

\* session.get("messages", [])
SessionHistory(session) == session.messages

\* A create_session whose new row already holds a message.
CreateSession_NonEmpty(store) ==
    LET id == StoreIds[Cardinality(DOMAIN store) + 1]
    IN  [id |-> id,
         store |-> [s \in DOMAIN store \cup {id} |->
                      IF s = id THEN <<Msg("assistant", "welcome")>> ELSE store[s]]]

\* create_session: insert a row with "messages": [] and return the id the store chose.
CreateSession(store) ==
    LET id == StoreIds[Cardinality(DOMAIN store) + 1]
    IN  [id |-> id,
         store |-> [s \in DOMAIN store \cup {id} |-> IF s = id THEN <<>> ELSE store[s]]]

\* An update that adds the new list to the one the row holds.
UpdateSessionMessages_Merge(store, session_id, messages, update_raised) ==
    [raised |-> FALSE,
     store |-> IF update_raised \/ session_id \notin DOMAIN store
               THEN store
               ELSE [store EXCEPT ![session_id] = @ \o messages]]

\* An update without .eq("id", session_id): it writes every row.
UpdateSessionMessages_EveryRow(store, session_id, messages, update_raised) ==
    [raised |-> FALSE,
     store |-> IF update_raised \/ session_id \notin DOMAIN store
               THEN store
               ELSE [s \in DOMAIN store |-> messages]]

\* An update_session_messages without its except clause.
UpdateSessionMessages_Propagates(store, session_id, messages, update_raised) ==
    [raised |-> update_raised,
     store |-> IF update_raised \/ session_id \notin DOMAIN store
               THEN store
               ELSE [store EXCEPT ![session_id] = messages]]

\* update_session_messages: the write, or a logged failure that leaves the row.
UpdateSessionMessages(store, session_id, messages, update_raised) ==
    [raised |-> FALSE,
     store |-> IF update_raised \/ session_id \notin DOMAIN store
               THEN store
               ELSE [store EXCEPT ![session_id] = messages]]

\* ------------------------------------------------------------ client handles

\* get_supabase_client: the module's _client, built on first use from the
\* settings; RuntimeError where SUPABASE_URL or SUPABASE_KEY is missing.
GetSupabaseClient(client, configured) ==
    IF client THEN [raised |-> FALSE, client |-> TRUE, constructed |-> FALSE]
    ELSE IF ~configured THEN [raised |-> TRUE, client |-> FALSE, constructed |-> FALSE]
    ELSE [raised |-> FALSE, client |-> TRUE, constructed |-> TRUE]

\* A getter without "if _client is None": every call builds a client.
GetGroqClient_Always(client, configured) ==
    IF ~configured THEN [raised |-> TRUE, client |-> client, constructed |-> FALSE]
    ELSE [raised |-> FALSE, client |-> TRUE, constructed |-> TRUE]

\* get_groq_client: the module's _client, built on first use from the
\* settings; RuntimeError where GROQ_API_KEY is missing.
GetGroqClient(client, configured) ==
    IF client THEN [raised |-> FALSE, client |-> TRUE, constructed |-> FALSE]
    ELSE IF ~configured THEN [raised |-> TRUE, client |-> FALSE, constructed |-> FALSE]
    ELSE [raised |-> FALSE, client |-> TRUE, constructed |-> TRUE]

\* ------------------------------------------------------------ orchestrator

\* An orchestrator that goes on to retrieval after a failed embedding.
OnEmbedError_Continue == "search"

\* Where answer_question goes when encode_text raises: nothing catches it.
OnEmbedError == "raised"

\* An orchestrator that goes from session resolution to the suggestions.
AfterSession_SkipAnswer == "suggest"

\* Step 5 follows step 4: with the session resolved, generate_response is next.
AfterSession == "generate"

\* A trim that keeps one message less.
TrimHistory_Odd(chat_history) == LastN(chat_history, HistoryCap - 1)

\* A trim that keeps the oldest ten messages.
TrimHistory_Oldest(chat_history) == FirstN(chat_history, HistoryCap)

\* No trim at all.
TrimHistory_None(chat_history) == chat_history

\* chat_history[-10:]
TrimHistory(chat_history) == LastN(chat_history, HistoryCap)

\* The two appends of step 7, then the trim.
AppendExchange(chat_history, question, answer) ==
    TrimHistory(chat_history \o <<Msg("user", question), Msg("assistant", answer)>>)

ChatResponse(answer, sources, session_id, suggested) ==
    [answer |-> answer, sources |-> sources, session_id |-> session_id,
     suggested_questions |-> suggested]

\* No response (yet).
NoResponse == ChatResponse("", <<>>, NoneSid, <<>>)

\* ------------------------------------------------------------------- state

VARIABLES
    env,              \* what the process environment configures
    model_loaded,     \* embeddings._model is not None
    supabase_client,  \* database._client is not None
    groq_client,      \* groq_client._client is not None
    chat_sessions,    \* the chat_sessions table: id -> messages
    turn,             \* per worker: the locals of its call of answer_question
    started,          \* turns started so far
    log,              \* per session: the exchanges of its turns, while it is clean
    clean,            \* per session: every turn on it wrote what it read plus its exchange
    probe             \* a function of the services called on its own: its input and result

vars == <<env, model_loaded, supabase_client, groq_client, chat_sessions,
          turn, started, log, clean, probe>>

\* HF_API_TOKEN set, SUPABASE_URL and SUPABASE_KEY set, GROQ_API_KEY set, and
\* whether the settings object carries rag_reasoning_effort.
Environment(hf, supabase, groq, effort) ==
    [hf_api_token |-> hf, supabase |-> supabase, groq_api_key |-> groq,
     reasoning_effort |-> effort]

Environments ==
    { Environment(TRUE, TRUE, TRUE, TRUE),
      Environment(FALSE, TRUE, TRUE, FALSE),
      Environment(FALSE, FALSE, TRUE, TRUE),
      Environment(TRUE, TRUE, FALSE, TRUE) }

\* A worker that is not inside answer_question.
IdleTurn ==
    [pc |-> "idle", platform |-> "web", question |-> "", supplied |-> NoneSid,
     session_id |-> NoneSid, found |-> FALSE, read |-> <<>>, created |-> NoneSid, chat_history |-> <<>>,
     gen_history |-> <<>>, prompt |-> <<>>, results |-> <<>>, retrieved |-> FALSE,
     context |-> <<>>,
     answer |-> "", suggested |-> <<>>, calls |-> <<>>, failures |-> {},
     error |-> "", response |-> NoResponse]

\* The exchanges session "s1" holds in the populated initial store.
PriorQuestions == <<"p1", "p2", "p3", "p4", "p5", "p6">>
PriorLog == [i \in 1..PriorTurns |-> [question |-> PriorQuestions[i], answer |-> "a0"]]

\* The messages of a sequence of exchanges.
RECURSIVE Flatten(_)
Flatten(exchanges) ==
    IF exchanges = <<>> THEN <<>>
    ELSE <<Msg("user", Head(exchanges).question), Msg("assistant", Head(exchanges).answer)>>
         \o Flatten(Tail(exchanges))

EmptyStore == [s \in {} |-> <<>>]

\* No function is being called on its own.
NoProbe == [op |-> "none", input |-> <<>>, output |-> <<>>]

InitWith(environments) ==
    /\ probe = NoProbe
    /\ env \in environments
    /\ model_loaded = FALSE
    /\ supabase_client = FALSE
    /\ groq_client = FALSE
    /\ \E populated \in BOOLEAN :
         /\ chat_sessions = IF populated THEN [s \in {"s1"} |-> Flatten(PriorLog)] ELSE EmptyStore
         /\ log = IF populated THEN [s \in {"s1"} |-> PriorLog] ELSE EmptyStore
         /\ clean = IF populated THEN [s \in {"s1"} |-> TRUE] ELSE EmptyStore
    /\ turn = [t \in Tasks |-> IdleTurn]
    /\ started = 0

Init == InitWith(Environments)

\* ----------------------------------------------------------------- actions

Set(t, fields) == turn' = [turn EXCEPT ![t] = fields]

\* An exception leaves answer_question.
Raise(t, tag, message) ==
    Set(t, [turn[t] EXCEPT !.pc = "raised", !.failures = @ \cup {tag}, !.error = message])

\* The turn of worker t may still insert a row.
NeedsCreate(t) ==
    \/ turn[t].pc = "create"
    \/ /\ turn[t].pc \in {"embed", "search", "session"}
       /\ turn[t].supplied \notin DOMAIN chat_sessions

\* The table has room for one more row than the turns in flight may insert.
Room ==
    Cardinality(DOMAIN chat_sessions) + Cardinality({t \in Tasks : NeedsCreate(t)})
        < MaxSessions

\* main.lifespan: load_model() in local mode.
LoadModel ==
    /\ ~model_loaded
    /\ ~env.hf_api_token
    /\ \A t \in Tasks : turn[t].pc = "idle"
    /\ model_loaded' = TRUE
    /\ UNCHANGED <<probe, env, supabase_client, groq_client, chat_sessions, turn, started, log, clean>>

\* A caller enters answer_question(question, session_id).
Start(t, sids) ==
    /\ turn[t].pc = "idle"
    /\ started < MaxTurns
    /\ \E sid \in sids \cup DOMAIN chat_sessions :
         /\ sid \in DOMAIN chat_sessions \/ Room
         /\ Set(t, [IdleTurn EXCEPT !.pc = "embed", !.question = QuestionTexts[started + 1],
                                    !.supplied = sid, !.session_id = sid])
    /\ started' = started + 1
    /\ UNCHANGED <<probe, env, model_loaded, supabase_client, groq_client, chat_sessions, log, clean>>

\* The question itinerary_command asks.
ItineraryQuestion == "plan-an-itinerary-of-n-days-in-tokyo"

\* A handler that continues the session named after the user.
TelegramSessionId_PerUser(user_id) == user_id

\* The session_id the Telegram handlers give answer_question: they pass
\* question, platform and user_id only, so it is the default, None.
TelegramSessionId(user_id) == NoneSid

\* handle_text_message or itinerary_command enters
\* answer_question(question=..., platform="telegram", user_id=user_id).
TelegramStart(t) ==
    /\ turn[t].pc = "idle"
    /\ started < MaxTurns
    /\ Room
    /\ \E question \in {QuestionTexts[started + 1], ItineraryQuestion} :
         Set(t, [IdleTurn EXCEPT !.pc = "embed", !.platform = "telegram",
                                 !.question = question,
                                 !.supplied = TelegramSessionId("telegram-user"),
                                 !.session_id = TelegramSessionId("telegram-user")])
    /\ started' = started + 1
    /\ UNCHANGED <<probe, env, model_loaded, supabase_client, groq_client, chat_sessions, log, clean>>

\* Step 1: question_embedding = encode_text(question)
Embed(t, scripts) ==
    /\ turn[t].pc = "embed"
    /\ \E script \in scripts :
         LET r == EncodeText(env.hf_api_token, model_loaded, turn[t].question, script)
             called == [turn[t] EXCEPT !.calls = Append(@, "encode_text")]
         IN  IF r.raised
             THEN Set(t, [called EXCEPT !.pc = OnEmbedError, !.failures = @ \cup {"embed"},
                                        !.error = r.error])
             ELSE Set(t, [called EXCEPT !.pc = "search"])
    /\ UNCHANGED <<probe, env, model_loaded, supabase_client, groq_client, chat_sessions,
                   started, log, clean>>

\* Steps 2 and 3: vector_search, then context and sources.
Search(t, outcomes) ==
    /\ turn[t].pc = "search"
    /\ LET got == GetSupabaseClient(supabase_client, env.supabase)
       IN  /\ supabase_client' = got.client
           /\ IF got.raised
              THEN Raise(t, "supabase_settings", "SUPABASE_URL and SUPABASE_KEY must be set")
              ELSE \E outcome \in outcomes :
                 LET r == VectorSearch(outcome)
                 IN  Set(t, [turn[t] EXCEPT
                       !.pc = IF r.raised THEN "raised" ELSE "session",
                       !.calls = Append(IF got.constructed THEN Append(@, "create_client")
                                        ELSE @, "vector_search"),
                       !.failures = IF outcome.rpc_raised THEN @ \cup {"rpc_raised"} ELSE @,
                       !.results = r.results,
                       !.context = BuildContext(r.results),
                       !.retrieved = ~r.raised])
    /\ UNCHANGED <<probe, env, model_loaded, groq_client, chat_sessions, started, log, clean>>

\* Step 4, "if session_id:" branch: session = get_session(session_id)
ResolveSession(t, selects) ==
    /\ turn[t].pc = "session"
    /\ Truthy(turn[t].supplied)
    /\ \E select_raised \in selects :
         /\ (select_raised /\ turn[t].supplied \in DOMAIN chat_sessions) => Room
         /\ LET session == GetSession(chat_sessions, turn[t].supplied, select_raised)
                called == [turn[t] EXCEPT
                             !.calls = Append(@, "get_session"),
                             !.failures = IF select_raised THEN @ \cup {"select_raised"} ELSE @]
            IN  IF session.found
                THEN Set(t, [called EXCEPT !.pc = AfterSession, !.found = TRUE,
                                           !.read = session.messages,
                                           !.chat_history = SessionHistory(session)])
                ELSE Set(t, [called EXCEPT !.pc = "create"])
    /\ UNCHANGED <<probe, env, model_loaded, supabase_client, groq_client, chat_sessions,
                   started, log, clean>>

\* Step 4, both create branches: session_id = create_session(...); chat_history = []
NewSession(t, inserts) ==
    /\ \/ turn[t].pc = "create"
       \/ turn[t].pc = "session" /\ ~Truthy(turn[t].supplied)
    /\ \E insert_raised \in inserts :
         LET called == [turn[t] EXCEPT !.calls = Append(@, "create_session")]
             made == CreateSession(chat_sessions)
         IN  IF insert_raised
             THEN /\ Set(t, [called EXCEPT !.pc = "raised", !.failures = @ \cup {"insert_raised"},
                                           !.error = "<postgrest error>"])
                  /\ UNCHANGED <<chat_sessions, log, clean>>
             ELSE /\ Set(t, [called EXCEPT !.pc = AfterSession, !.session_id = made.id,
                                           !.created = made.id, !.chat_history = <<>>])
                  /\ chat_sessions' = made.store
                  /\ log' = [s \in DOMAIN made.store |-> IF s = made.id THEN <<>> ELSE log[s]]
                  /\ clean' = [s \in DOMAIN made.store |-> IF s = made.id THEN TRUE ELSE clean[s]]
    /\ UNCHANGED <<probe, env, model_loaded, supabase_client, groq_client, started>>

\* Step 5: answer = generate_response(context, question, chat_history)
Generate(t, outcomes) ==
    /\ turn[t].pc = "generate"
    /\ LET got == GetGroqClient(groq_client, env.groq_api_key)
       IN  /\ groq_client' = got.client
           /\ IF got.raised
              THEN Raise(t, "groq_settings", "GROQ_API_KEY must be set")
              ELSE \E outcome \in outcomes :
                 LET r == GenerateResponse(turn[t].context, turn[t].question,
                                           turn[t].chat_history, env.reasoning_effort, outcome)
                     calls == IF got.constructed THEN Append(turn[t].calls, "Groq")
                              ELSE turn[t].calls
                 IN  Set(t, [turn[t] EXCEPT
                       !.pc = IF r.raised THEN "raised" ELSE "suggest",
                       !.calls = IF r.called THEN Append(calls, "completion:answer") ELSE calls,
                       !.failures = @ \cup (IF ~r.called THEN {"attribute_error"}
                                            ELSE IF outcome.raised THEN {"answer_raised"}
                                            ELSE {}),
                       !.gen_history = turn[t].chat_history,
                       !.prompt = r.messages,
                       !.answer = r.answer])
    /\ UNCHANGED <<probe, env, model_loaded, supabase_client, chat_sessions, started, log, clean>>

\* Step 6: suggested = generate_suggested_questions(question, answer)
Suggest(t, outcomes) ==
    /\ turn[t].pc = "suggest"
    /\ LET got == GetGroqClient(groq_client, env.groq_api_key)
       IN  /\ groq_client' = got.client
           /\ IF got.raised
              THEN Raise(t, "groq_settings", "GROQ_API_KEY must be set")
              ELSE \E outcome \in outcomes :
                 LET r == GenerateSuggestedQuestions(env.reasoning_effort, outcome)
                     calls == IF got.constructed THEN Append(turn[t].calls, "Groq")
                              ELSE turn[t].calls
                 IN  Set(t, [turn[t] EXCEPT
                       !.pc = IF r.raised THEN "raised" ELSE "persist",
                       !.calls = IF r.called THEN Append(calls, "completion:suggest")
                                 ELSE calls,
                       !.failures = IF r.called /\ outcome.raised
                                    THEN @ \cup {"suggest_raised"} ELSE @,
                       !.suggested = r.suggested])
    /\ UNCHANGED <<probe, env, model_loaded, supabase_client, chat_sessions,
                   started, log, clean>>

\* Step 7 and the return: append, trim, update_session_messages, ChatResponse.
Persist(t, updates) ==
    /\ turn[t].pc = "persist"
    /\ \E update_raised \in updates :
         LET sid == turn[t].session_id
             chat_history == AppendExchange(turn[t].chat_history, turn[t].question, turn[t].answer)
             written == UpdateSessionMessages(chat_sessions, sid, chat_history, update_raised)
         IN  /\ chat_sessions' = written.store
             /\ clean' = [clean EXCEPT ![sid] =
                            @ /\ ~update_raised /\ chat_sessions[sid] = turn[t].chat_history]
             /\ log' = [log EXCEPT ![sid] =
                          IF clean'[sid]
                          THEN Append(@, [question |-> turn[t].question, answer |-> turn[t].answer])
                          ELSE <<>>]
             /\ Set(t, [turn[t] EXCEPT
                   !.pc = IF written.raised THEN "raised" ELSE "done",
                   !.calls = Append(@, "update_session_messages"),
                   !.failures = IF update_raised THEN @ \cup {"update_raised"} ELSE @,
                   !.chat_history = chat_history,
                   !.response = IF written.raised THEN NoResponse
                                ELSE ChatResponse(turn[t].answer, BuildSources(turn[t].results),
                                                  sid, turn[t].suggested)])
    /\ UNCHANGED <<probe, env, model_loaded, supabase_client, groq_client, started>>

\* The caller takes the response, or the exception, and the worker is free again.
Return(t) ==
    /\ turn[t].pc \in {"done", "raised"}
    /\ Set(t, IdleTurn)
    /\ UNCHANGED <<probe, env, model_loaded, supabase_client, groq_client, chat_sessions,
                   started, log, clean>>

\* One worker, every outcome of every call.
Next ==
    \/ LoadModel
    \/ Start(1, {NoneSid, "", StaleSid})
    \/ Embed(1, HfScripts)
    \/ Search(1, SearchOutcomes)
    \/ ResolveSession(1, BOOLEAN)
    \/ NewSession(1, BOOLEAN)
    \/ Generate(1, AnswerOutcomes)
    \/ Suggest(1, SuggestionOutcomes)
    \/ Persist(1, BOOLEAN)
    \/ Return(1)

Spec == Init /\ [][Next]_vars

\* Two workers on one store: the update may fail, every other call has one outcome.
InitConc == InitWith({Environment(TRUE, TRUE, TRUE, TRUE)})

NextConc ==
    \E t \in Tasks :
        \/ Start(t, {NoneSid})
        \/ Embed(t, {[i \in 1..Retries |-> "ok"]})
        \/ Search(t, {[rpc_raised |-> FALSE, data |-> <<>>]})
        \/ ResolveSession(t, {FALSE})
        \/ NewSession(t, {FALSE})
        \/ Generate(t, {[raised |-> FALSE, content |-> "a1"]})
        \/ Suggest(t, {[raised |-> TRUE, none |-> FALSE, content |-> <<>>]})
        \/ Persist(t, BOOLEAN)
        \/ Return(t)

SpecConc == InitConc /\ [][NextConc]_vars

\* One worker serving the Telegram handlers, and web turns that continue the
\* sessions there are; the insert and the update may fail.
InitTelegram == InitWith({Environment(TRUE, TRUE, TRUE, TRUE)})

NextTelegram ==
    \/ TelegramStart(1)
    \/ Start(1, {})
    \/ Embed(1, {[i \in 1..Retries |-> "ok"]})
    \/ Search(1, {[rpc_raised |-> FALSE, data |-> <<>>]})
    \/ ResolveSession(1, {FALSE})
    \/ NewSession(1, BOOLEAN)
    \/ Generate(1, {[raised |-> FALSE, content |-> "a1"], [raised |-> TRUE, content |-> ""]})
    \/ Suggest(1, {[raised |-> TRUE, none |-> FALSE, content |-> <<>>]})
    \/ Persist(1, BOOLEAN)
    \/ Return(1)

SpecTelegram == InitTelegram /\ [][NextTelegram]_vars

\* ------------------------------------------- the services called on their own

\* Everything but the probe.
program == <<env, model_loaded, supabase_client, groq_client, chat_sessions,
             turn, started, log, clean>>

\* All texts of at most n characters over an alphabet.
Texts(alphabet, n) == UNION {[1..k -> alphabet] : k \in 0..n}

\* Provider outcomes for generate_suggested_questions: every short output.
SuggestionProbes ==
    { [raised |-> TRUE,  none |-> FALSE, content |-> <<>>],
      [raised |-> FALSE, none |-> TRUE,  content |-> <<>>] }
    \cup { [raised |-> FALSE, none |-> FALSE, content |-> c] :
             c \in Texts({"a", "b", " ", "\n"}, MaxRawLen) }

\* generate_suggested_questions(question, answer), with the client there.
CallSuggest ==
    /\ probe = NoProbe
    /\ \E outcome \in SuggestionProbes :
         probe' = [op |-> "generate_suggested_questions",
                   input |-> [has_effort |-> env.reasoning_effort, outcome |-> outcome],
                   output |-> GenerateSuggestedQuestions(env.reasoning_effort, outcome)]
    /\ UNCHANGED program

\* _call_hf_api(texts)
CallHf ==
    /\ probe = NoProbe
    /\ env.hf_api_token
    /\ \E script \in HfScripts :
         probe' = [op |-> "_call_hf_api", input |-> [script |-> script],
                   output |-> CallHfApi(script)]
    /\ UNCHANGED program

\* Scripts of a call of _call_hf_api inside encode_batch: it works at once, or never.
BatchScripts == {[i \in 1..Retries |-> "ok"], [i \in 1..Retries |-> "timeout"]}

\* encode_text(text)
CallEncodeText ==
    /\ probe = NoProbe
    /\ \E text \in {"t1", "t2"}, script \in HfScripts :
         probe' = [op |-> "encode_text",
                   input |-> [use_api |-> env.hf_api_token, loaded |-> model_loaded,
                              text |-> text, script |-> script],
                   output |-> EncodeText(env.hf_api_token, model_loaded, text, script)]
    /\ UNCHANGED program

\* encode_batch(texts, batch_size)
CallEncodeBatch ==
    /\ probe = NoProbe
    /\ \E texts \in Texts({"t1", "t2", "t3"}, MaxTexts), batch_size \in 1..MaxBatchSize,
          scripts \in [1..MaxTexts -> BatchScripts] :
         probe' = [op |-> "encode_batch",
                   input |-> [use_api |-> env.hf_api_token, loaded |-> model_loaded,
                              texts |-> texts, batch_size |-> batch_size, scripts |-> scripts],
                   output |-> EncodeBatch(env.hf_api_token, model_loaded, texts, batch_size,
                                          scripts)]
    /\ UNCHANGED program

\* Rows the store may return: a title, a body around the maximum length (or
\* empty), a similarity; the store orders its rows by similarity, descending.
ProbeRows ==
    [title_len : {0, MaxTitleLen},
     content_len : {0} \cup ((MaxContentPerSource - LenSpread)..(MaxContentPerSource + LenSpread)),
     similarity : {8126, 8125, 8115, 6349}]

ProbeResults ==
    { [i \in DOMAIN rows |->
          [id |-> <<"d1", "d2", "d3", "d4">>[i], title |-> "title",
           title_len |-> rows[i].title_len, content_len |-> rows[i].content_len,
           similarity |-> rows[i].similarity]] :
      rows \in { r \in Texts(ProbeRows, MaxPassages) :
                   \A i \in 1..(Len(r) - 1) : r[i].similarity >= r[i + 1].similarity } }

\* Step 3 of answer_question: the context and the sources of a search result.
CallAssemble ==
    /\ probe = NoProbe
    /\ \E search_results \in ProbeResults :
         probe' = [op |-> "assemble", input |-> [search_results |-> search_results],
                   output |-> [context |-> BuildContext(search_results),
                               length |-> ContextLength(BuildContext(search_results)),
                               sources |-> BuildSources(search_results)]]
    /\ UNCHANGED program

\* The request validation of POST /api/chat: a question whose length is out of
\* the field's limits is answered with 422 and chat() is not called.
ChatEndpoint(question_len) ==
    IF question_len >= MinQuestionLength /\ question_len <= MaxQuestionLength
    THEN [entered |-> TRUE, question_len |-> question_len]
    ELSE [entered |-> FALSE, question_len |-> question_len]

\* handle_text_message: "if not update.message or not update.message.text: return",
\* then answer_question(question=update.message.text, ...).
HandleTextMessage(has_message, text_len) ==
    IF ~has_message \/ text_len = 0
    THEN [entered |-> FALSE, question_len |-> text_len]
    ELSE [entered |-> TRUE, question_len |-> text_len]

\* The digits of str(days) for a clamped number of days.
DaysDigits(days) == IF days < 10 THEN 1 ELSE 2

\* itinerary_command: days = 3, or int(context.args[0]) clamped to 1..14 (a
\* ValueError keeps the default); the question is a fixed text around str(days).
ItineraryCommand(has_message, arg) ==
    LET days == IF arg.given /\ arg.is_int
                THEN (IF arg.value < 1 THEN 1 ELSE IF arg.value > 14 THEN 14 ELSE arg.value)
                ELSE 3
    IN  IF ~has_message
        THEN [entered |-> FALSE, question_len |-> 0]
        ELSE [entered |-> TRUE, question_len |-> ItineraryTextLength + DaysDigits(days)]

\* Lengths of the texts a client may send: none, the limits of the question
\* field and their neighbours, and the longest message Telegram delivers.
TextLengths ==
    {0, MinQuestionLength, TelegramMessageLimit}
        \cup ((MaxQuestionLength - LenSpread)..(MaxQuestionLength + LenSpread))

\* The first argument of /itinerary: none, a number, or something else.
ItineraryArgs ==
    {[given |-> FALSE, is_int |-> FALSE, value |-> 0],
     [given |-> TRUE, is_int |-> FALSE, value |-> 0]}
        \cup {[given |-> TRUE, is_int |-> TRUE, value |-> v] : v \in {-1, 0, 7, 14, 99}}

\* A question arrives at one of the entry points of the pipeline.
CallEntry ==
    /\ probe = NoProbe
    /\ \/ \E question_len \in TextLengths :
            probe' = [op |-> "entry",
                      input |-> [entry |-> "POST /api/chat", text_len |-> question_len],
                      output |-> ChatEndpoint(question_len)]
       \/ \E has_message \in BOOLEAN, text_len \in TextLengths :
            probe' = [op |-> "entry",
                      input |-> [entry |-> "handle_text_message", text_len |-> text_len],
                      output |-> HandleTextMessage(has_message, text_len)]
       \/ \E has_message \in BOOLEAN, arg \in ItineraryArgs :
            probe' = [op |-> "entry",
                      input |-> [entry |-> "itinerary_command", text_len |-> 0],
                      output |-> ItineraryCommand(has_message, arg)]
    /\ UNCHANGED program

\* An exception text is a sequence of chunks: the words the handler looks
\* for, in the spellings str(e) may have, and text it does not look for.
ErrorChunks ==
    {"timeout", "Timeout", "HF API", "hf api", "embedding", "Embedding", "groq", "GROQ",
     "other text"}

\* str.lower()
Lower(text) ==
    [i \in DOMAIN text |->
        CASE text[i] = "Timeout"   -> "timeout"
          [] text[i] = "HF API"    -> "hf api"
          [] text[i] = "Embedding" -> "embedding"
          [] text[i] = "GROQ"      -> "groq"
          [] OTHER                 -> text[i]]

\* "<chunk>" in text
Contains(text, chunk) == \E i \in DOMAIN text : text[i] = chunk

\* The four HTTPExceptions of chat().
Overloaded == [status_code |-> 504, detail |-> "the-service-is-busy-try-again-in-a-moment"]
AiUnavailable == [status_code |-> 503, detail |-> "the-ai-service-is-temporarily-unavailable"]
LanguageUnavailable ==
    [status_code |-> 503, detail |-> "the-language-service-is-temporarily-unavailable"]
ProcessingError == [status_code |-> 500, detail |-> "error-processing-the-question-try-again"]

\* An except clause that looks for "groq" first.
ChatError_GroqFirst(error_msg) ==
    IF Contains(Lower(error_msg), "groq") THEN LanguageUnavailable
    ELSE IF Contains(Lower(error_msg), "timeout") THEN Overloaded
    ELSE IF Contains(error_msg, "HF API") \/ Contains(Lower(error_msg), "embedding")
    THEN AiUnavailable
    ELSE ProcessingError

\* The except clause of chat(): error_msg = str(e), then the first test that matches.
ChatError(error_msg) ==
    IF Contains(Lower(error_msg), "timeout") THEN Overloaded
    ELSE IF Contains(error_msg, "HF API") \/ Contains(Lower(error_msg), "embedding")
    THEN AiUnavailable
    ELSE IF Contains(Lower(error_msg), "groq") THEN LanguageUnavailable
    ELSE ProcessingError

\* answer_question raises inside chat().
CallChatError ==
    /\ probe = NoProbe
    /\ \E error_msg \in Texts(ErrorChunks, MaxErrorLen) :
         probe' = [op |-> "chat_error", input |-> [error_msg |-> error_msg],
                   output |-> ChatError(error_msg)]
    /\ UNCHANGED program

\* A settings object without the attribute rag_reasoning_effort.
NoAttribute == "<no attribute>"

\* Settings objects: the defaults of config.py or other values from the
\* environment (temperature and top_p in tenths), with or without a
\* rag_reasoning_effort.
SettingsObjects ==
    [groq_model_name : {"llama-3.3-70b-versatile", "openai/gpt-oss-20b"},
     rag_temperature : {7, 2},
     rag_top_p : {9, 10},
     rag_max_completion_tokens : {DefaultMaxCompletionTokens, SuggestionMaxCompletionTokens},
     rag_reasoning_effort : {NoAttribute, "medium"}]

\* The keyword arguments of client.chat.completions.create in
\* generate_response; reading a missing attribute raises before the request.
AnswerRequest(settings) ==
    IF settings.rag_reasoning_effort = NoAttribute THEN [sent |-> FALSE]
    ELSE [sent |-> TRUE,
          model |-> settings.groq_model_name,
          temperature |-> settings.rag_temperature,
          max_completion_tokens |-> settings.rag_max_completion_tokens,
          top_p |-> settings.rag_top_p,
          reasoning_effort |-> settings.rag_reasoning_effort,
          stream |-> FALSE]

\* The keyword arguments of client.chat.completions.create in
\* generate_suggested_questions.
SuggestionRequest(settings) ==
    IF settings.rag_reasoning_effort = NoAttribute THEN [sent |-> FALSE]
    ELSE [sent |-> TRUE,
          model |-> settings.groq_model_name,
          temperature |-> settings.rag_temperature,
          max_completion_tokens |-> SuggestionMaxCompletionTokens,
          top_p |-> settings.rag_top_p,
          reasoning_effort |-> settings.rag_reasoning_effort,
          stream |-> FALSE]

\* One of the two completion requests of a turn, under some settings.
CallCompletion ==
    /\ probe = NoProbe
    /\ \E settings \in SettingsObjects :
         \/ probe' = [op |-> "completion",
                      input |-> [settings |-> settings, of |-> "generate_response"],
                      output |-> AnswerRequest(settings)]
         \/ probe' = [op |-> "completion",
                      input |-> [settings |-> settings, of |-> "generate_suggested_questions"],
                      output |-> SuggestionRequest(settings)]
    /\ UNCHANGED program

\* The call is over.
CallReturn ==
    /\ probe # NoProbe
    /\ probe' = NoProbe
    /\ UNCHANGED program

\* The two environments of the services: the API with a full settings object,
\* and the local model with the settings of config.py.
InitFn ==
    /\ InitWith({Environment(TRUE, TRUE, TRUE, TRUE), Environment(FALSE, TRUE, TRUE, FALSE)})
    /\ chat_sessions = EmptyStore

NextFn ==
    \/ LoadModel
    \/ CallSuggest
    \/ CallHf
    \/ CallEncodeText
    \/ CallEncodeBatch
    \/ CallAssemble
    \/ CallEntry
    \/ CallChatError
    \/ CallCompletion
    \/ CallReturn

SpecFn == InitFn /\ [][NextFn]_vars

\* ------------------------------------------------------------------ claims

\* The turn of worker t has passed session resolution.
Resolved(t) == turn[t].pc \in {"generate", "suggest", "persist", "done"}

\* generate_response has returned in the turn of worker t.
Answered(t) == turn[t].pc \in {"suggest", "persist", "done"}

\* C1: a turn whose supplied session_id is non-empty and found by get_session
\* keeps that identifier (in the turn and in the response), makes no
\* create_session call, and hands generate_response exactly the messages the
\* store holds for that session; so two turns in a row on one existing
\* identifier both answer with it.
C1_FoundSessionIsReused ==
    \A t \in Tasks :
        turn[t].found =>
            /\ Truthy(turn[t].supplied)
            /\ turn[t].session_id = turn[t].supplied
            /\ Count(turn[t].calls, "create_session") = 0
            /\ Answered(t) => turn[t].gen_history = turn[t].read
            /\ turn[t].pc \in {"suggest", "persist"} =>
                   turn[t].gen_history = chat_sessions[turn[t].supplied]
            /\ turn[t].pc = "done" => turn[t].response.session_id = turn[t].supplied

\* A second turn in a row on the existing session "s1" has returned, and it
\* was generated from a non-empty stored history.
C1_Witness ==
    \E t \in Tasks :
        /\ turn[t].pc = "done" /\ turn[t].found /\ turn[t].supplied = "s1"
        /\ turn[t].gen_history # <<>>
        /\ turn[t].response.session_id = "s1"
        /\ Len(log["s1"]) >= PriorTurns + 2

\* C2 (states): a turn with no session_id, or with one get_session did not
\* find, has made exactly one create_session call once it is past session
\* resolution; its session_id is the identifier of the row that call
\* inserted, which is not the supplied one; generation runs on the empty
\* history; the response carries the new identifier.
C2_NewSessionState ==
    \A t \in Tasks :
        (Resolved(t) /\ ~turn[t].found) =>
            /\ Count(turn[t].calls, "create_session") = 1
            /\ turn[t].created \in DOMAIN chat_sessions
            /\ turn[t].session_id = turn[t].created
            /\ turn[t].created # turn[t].supplied
            /\ turn[t].pc = "generate" =>
                   turn[t].chat_history = <<>> /\ chat_sessions[turn[t].created] = <<>>
            /\ Answered(t) => turn[t].gen_history = <<>>
            /\ turn[t].pc = "done" => turn[t].response.session_id = turn[t].created

\* C2 (steps): the step that resolves such a turn adds exactly one row to the
\* store, under an identifier the store did not hold, with empty messages.
C2_NewSessionStep ==
    \A t \in Tasks :
        (turn[t].pc \in {"session", "create"} /\ turn'[t].pc = "generate" /\ ~turn'[t].found) =>
            /\ turn'[t].created \notin DOMAIN chat_sessions
            /\ DOMAIN chat_sessions' = DOMAIN chat_sessions \cup {turn'[t].created}
            /\ chat_sessions'[turn'[t].created] = <<>>
            /\ \A s \in DOMAIN chat_sessions : chat_sessions'[s] = chat_sessions[s]

\* C2: for every turn where no session_id is supplied, or the supplied one is
\* not found, exactly one new session is created with empty messages,
\* generation runs with an empty history, and the returned session_id is the
\* store-generated identifier of that session, different from the supplied one.
C2_NewSession == [](C2_NewSessionState) /\ [][C2_NewSessionStep]_vars

\* A turn that supplied an identifier the store does not hold has returned
\* with the identifier of the session it created.
C2_Witness ==
    \E t \in Tasks :
        /\ turn[t].pc = "done" /\ ~turn[t].found
        /\ turn[t].supplied = StaleSid
        /\ turn[t].response.session_id = turn[t].created

\* C3: after more than 5 turns in a row on one session, each persisted, the
\* stored messages of the session are exactly 10: the user/assistant pairs of
\* the 5 most recent turns, in their order.
C3_LastFiveExchanges ==
    \A s \in DOMAIN chat_sessions :
        (clean[s] /\ Len(log[s]) > 5) =>
            /\ Len(chat_sessions[s]) = 10
            /\ chat_sessions[s] = Flatten(LastN(log[s], 5))

\* A session on which 7 turns were persisted one after another.
C3_Witness ==
    \E s \in DOMAIN chat_sessions : clean[s] /\ Len(log[s]) = PriorTurns + MaxTurns

\* C4: starting from a store whose sessions hold at most 10 messages, every
\* session holds at most 10 messages in every reachable state, whatever the
\* interleaving of the turns and whichever of their writes fail.
C4_AtMostTenMessages ==
    \A s \in DOMAIN chat_sessions : Len(chat_sessions[s]) <= 10

\* A turn read a full session (10 messages), added its exchange and wrote.
C4_Witness ==
    \E t \in Tasks :
        /\ turn[t].pc = "done" /\ turn[t].found
        /\ Len(turn[t].read) = 10
        /\ "update_raised" \notin turn[t].failures
        /\ chat_sessions[turn[t].session_id] = turn[t].chat_history

\* C5 (states): a turn whose update failed has returned the ChatResponse made
\* of the answer, sources, session_id and suggestions it computed.
C5_FailedWriteState ==
    \A t \in Tasks :
        "update_raised" \in turn[t].failures =>
            /\ turn[t].pc = "done"
            /\ turn[t].response = ChatResponse(turn[t].answer, BuildSources(turn[t].results),
                                               turn[t].session_id, turn[t].suggested)
            /\ turn[t].response.answer # ""
            /\ turn[t].response.session_id \in DOMAIN chat_sessions
            /\ chat_sessions[turn[t].session_id] = IF turn[t].found THEN turn[t].read ELSE <<>>

\* C5 (steps): step 7 never raises, and with a failed update it leaves the store.
C5_FailedWriteStep ==
    \A t \in Tasks :
        turn[t].pc = "persist" =>
            /\ turn'[t].pc \in {"persist", "done"}
            /\ "update_raised" \in turn'[t].failures => chat_sessions' = chat_sessions

\* C5: if the write of update_session_messages fails, answer_question still
\* returns the ChatResponse with the answer, sources, session_id and
\* suggestions of the turn, raises nothing, and leaves the stored messages of
\* the session as they were before the turn.
C5_FailedWrite == [](C5_FailedWriteState) /\ [][C5_FailedWriteStep]_vars

\* A turn on an existing session returned although its update failed.
C5_Witness ==
    \E t \in Tasks :
        /\ turn[t].pc = "done" /\ "update_raised" \in turn[t].failures
        /\ turn[t].found /\ turn[t].read # <<>>
        /\ turn[t].response.session_id = turn[t].supplied

\* What else can end a turn after retrieval: an insert that fails in
\* create_session, and settings without GROQ_API_KEY.
FatalAfterRetrieval == {"insert_raised", "groq_settings"}

\* C6 (states): after the RPC raised, the search result is empty, the turn is
\* past retrieval and is not ended by that error, and what it returns has
\* an empty sources list and an answer.
C6_RetrievalErrorState ==
    \A t \in Tasks :
        "rpc_raised" \in turn[t].failures =>
            /\ turn[t].results = <<>>
            /\ turn[t].retrieved
            /\ turn[t].pc = "raised" => turn[t].failures \cap FatalAfterRetrieval # {}
            /\ turn[t].pc = "done" =>
                   /\ turn[t].response.sources = <<>>
                   /\ turn[t].response.answer # ""
                   /\ Count(turn[t].calls, "update_session_messages") = 1

\* C6 (steps): the step in which the RPC raises goes on to session resolution.
C6_RetrievalErrorStep ==
    \A t \in Tasks :
        (turn[t].pc = "search" /\ "rpc_raised" \in turn'[t].failures) => turn'[t].pc = "session"

C7_AnswerNeverEmpty ==
    \A t \in Tasks :
        turn[t].pc = "done" =>
            /\ turn[t].response.answer # ""
            /\ turn[t].response.answer # NoneContent
            /\ turn[t].results = <<>> => turn[t].response.sources = <<>>

\* A turn with no passages returned, and the provider had given no content.
C7_Witness ==
    \E t \in Tasks :
        /\ turn[t].pc = "done" /\ turn[t].results = <<>>
        /\ Count(turn[t].calls, "completion:answer") = 1
        /\ turn[t].response.answer = FallbackNoContent

\* The calls of the turn of worker t that reached the completion provider.
ProviderCalls(t) ==
    Count(turn[t].calls, "completion:answer") + Count(turn[t].calls, "completion:suggest")

\* C8 as stated: when the provider call of generate_response raises, the
\* fallback string is the answer, the turn goes on as a success, and the
\* provider is not called again in that turn.
C8_NoFurtherProviderCall ==
    \A t \in Tasks :
        "answer_raised" \in turn[t].failures =>
            /\ turn[t].answer = FallbackError
            /\ turn[t].pc # "raised"
            /\ ProviderCalls(t) = 1

\* C8, amended: when the provider call of generate_response raises, the
\* fallback string is the answer, generate_response has called the provider
\* once (no retry), and the turn goes on as a success: the suggestions step
\* calls the provider one more time, the update is attempted, and the
\* response carries the fallback string.
C8_FallbackWithoutRetry ==
    \A t \in Tasks :
        "answer_raised" \in turn[t].failures =>
            /\ turn[t].answer = FallbackError
            /\ Answered(t)
            /\ Count(turn[t].calls, "completion:answer") = 1
            /\ turn[t].pc \in {"persist", "done"} =>
                   Count(turn[t].calls, "completion:suggest") = 1
            /\ turn[t].pc = "done" =>
                   /\ turn[t].response.answer = FallbackError
                   /\ Count(turn[t].calls, "update_session_messages") = 1

\* A turn returned the fallback string after the answer call had raised.
C8_Witness ==
    \E t \in Tasks :
        /\ turn[t].pc = "done" /\ "answer_raised" \in turn[t].failures
        /\ turn[t].response.answer = FallbackError
        /\ ProviderCalls(t) = 2

\* C9 as stated: once retrieval has returned, no failure of the session store
\* or of the completion provider gets out of answer_question.
C9_NothingFatalAfterRetrieval ==
    \A t \in Tasks : turn[t].retrieved => turn[t].pc # "raised"

\* C10 (states): a turn whose embedding failed has raised, with no response,
\* and the only call it made is encode_text.
C10_EmbeddingFailureState ==
    \A t \in Tasks :
        "embed" \in turn[t].failures =>
            /\ turn[t].pc = "raised"
            /\ turn[t].calls = <<"encode_text">>
            /\ turn[t].response = NoResponse
            /\ ~turn[t].retrieved
            /\ turn[t].created = NoneSid
            /\ turn[t].error # ""

\* C10 (steps): the embedding step, and the return of a raised turn, leave
\* the session store as it is.
C10_EmbeddingFailureStep ==
    \A t \in Tasks :
        (turn[t].pc = "embed" \/ "embed" \in turn[t].failures) => chat_sessions' = chat_sessions

\* C10: if the embedding step fails (the remote provider's retries are used
\* up, or the local model is not loaded), answer_question raises without a
\* response, and the turn makes no retrieval call, no completion call and no
\* create or update in the session store, which is unchanged.
C10_EmbeddingFailure == [](C10_EmbeddingFailureState) /\ [][C10_EmbeddingFailureStep]_vars

\* A turn raised because the local model was not loaded.
C10_Witness ==
    \E t \in Tasks :
        /\ turn[t].pc = "raised" /\ "embed" \in turn[t].failures
        /\ turn[t].error = ModelNotLoaded
        /\ "s1" \in DOMAIN chat_sessions

\* Position i of text c holds the first non-blank character of its line.
LineStart(c, i) ==
    /\ c[i] \notin Whitespace
    /\ \A j \in 1..(i - 1) : (\A k \in j..(i - 1) : c[k] # "\n") => c[j] \in Whitespace

\* The position of the last non-blank character of the line that position i is on.
LineEnd(c, i) ==
    CHOOSE j \in i..Len(c) :
        /\ c[j] \notin Whitespace
        /\ \A k \in i..j : c[k] # "\n"
        /\ \A m \in (j + 1)..Len(c) : (\A k \in i..m : c[k] # "\n") => c[m] \in Whitespace

\* The non-blank lines of text c, without the blanks around them, in order.
NonBlankLines(c) ==
    LET starts == {i \in DOMAIN c : LineStart(c, i)}
        nth(n) == CHOOSE i \in starts : Cardinality({j \in starts : j < i}) = n - 1
    IN  [n \in 1..Cardinality(starts) |-> SubSeq(c, nth(n), LineEnd(c, nth(n)))]

C12_PromptMessages ==
    \A t \in Tasks :
        Answered(t) =>
            LET h == turn[t].gen_history
                m == turn[t].prompt
                k == IF Len(h) < 6 THEN Len(h) ELSE 6
            IN  /\ Len(m) = k + 2
                /\ m[1].role = "system"
                /\ \A i \in 1..k : m[1 + i] = h[Len(h) - k + i]
                /\ m[Len(m)] = Msg("user", turn[t].question)
                /\ Cardinality({i \in DOMAIN m : /\ m[i].role = "user"
                                                 /\ m[i].content = turn[t].question}) = 1

\* An answer was generated on a history of 8 messages: the prompt carries
\* its last 6.
C12_Witness ==
    \E t \in Tasks :
        /\ Answered(t)
        /\ Len(turn[t].gen_history) = 8
        /\ Len(turn[t].prompt) = 8
        /\ turn[t].prompt[2] = turn[t].gen_history[3]

\* The index of the first attempt of a script that works, 0 if none does.
FirstOk(script) ==
    IF \E i \in DOMAIN script : script[i] = "ok"
    THEN CHOOSE i \in DOMAIN script : script[i] = "ok" /\ \A j \in 1..(i - 1) : script[j] # "ok"
    ELSE 0

\* C13: one call of _call_hf_api ends after at most 3 requests: it returns
\* with the first request that works, having retried after each timeout,
\* HTTP error or error payload before it, and raises once the third has failed.
C13_BoundedRetries ==
    probe.op = "_call_hf_api" =>
        LET script == probe.input.script
            out == probe.output
        IN  /\ out.posts \in 1..3
            /\ Len(out.delays) = out.posts - 1
            /\ FirstOk(script) # 0 => ~out.raised /\ out.posts = FirstOk(script)
            /\ FirstOk(script) = 0 => out.raised /\ out.posts = 3 /\ out.error # ""

\* A call returned with its third request, after a timeout and an error payload.
C13_Witness ==
    /\ probe.op = "_call_hf_api"
    /\ probe.input.script = <<"timeout", "error_payload", "ok">>
    /\ ~probe.output.raised
    /\ probe.output.posts = 3

\* C14 as stated: within one call, the delay before each further retry is
\* strictly greater than the delay before the retry preceding it.
C14_IncreasingBackoff ==
    probe.op = "_call_hf_api" =>
        \A k \in 1..(Len(probe.output.delays) - 1) :
            probe.output.delays[k + 1] > probe.output.delays[k]

\* C15: in local-model mode, encode_text and encode_batch called before
\* load_model has run raise the model-not-loaded error at once: no vector,
\* no call of a model, no request to the endpoint.
C15_ModelNotLoaded ==
    (probe.op \in {"encode_text", "encode_batch"}
        /\ ~probe.input.use_api /\ ~probe.input.loaded) =>
        /\ probe.output.raised
        /\ probe.output.error = ModelNotLoaded
        /\ probe.output.model_calls = 0
        /\ probe.op = "encode_text" =>
               probe.output.vector = <<>> /\ probe.output.posts = 0
        /\ probe.op = "encode_batch" =>
               probe.output.vectors = <<>> /\ probe.output.batches = <<>>

\* encode_batch was called on three texts before the local model was loaded.
C15_Witness ==
    /\ probe.op = "encode_batch"
    /\ ~probe.input.use_api /\ ~probe.input.loaded
    /\ Len(probe.input.texts) = 3
    /\ probe.output.raised

\* The texts of a sequence of batches, one after another.
RECURSIVE Concat(_)
Concat(batches) == IF batches = <<>> THEN <<>> ELSE Head(batches) \o Concat(Tail(batches))

C17_SourcesInOrder ==
    probe.op = "assemble" =>
        LET results == probe.input.search_results
            sources == probe.output.sources
        IN  /\ Len(sources) = Len(results)
            /\ \A i \in DOMAIN results :
                   /\ sources[i].id = results[i].id
                   /\ 10 * sources[i].similarity - results[i].similarity \in (-5)..5
            /\ \A i \in 1..(Len(sources) - 1) : sources[i].similarity >= sources[i + 1].similarity

\* Two passages whose similarities differ before the rounding and not after it.
C17_Witness ==
    /\ probe.op = "assemble"
    /\ Len(probe.input.search_results) = 2
    /\ probe.input.search_results[1].similarity = 8125
    /\ probe.input.search_results[2].similarity = 8115
    /\ probe.output.sources[1].id = "d1"
    /\ probe.output.sources[1].similarity = probe.output.sources[2].similarity

\* C18: the body of a passage goes into the context unchanged when it has at
\* most 2000 characters, and else as its first 2000 characters followed by
\* "..."; the ellipsis is there if and only if the body was cut.
C18_Truncation ==
    probe.op = "assemble" =>
        \A i \in DOMAIN probe.input.search_results :
            LET body == probe.input.search_results[i].content_len
                part == probe.output.context[i]
            IN  /\ body <= 2000 => part.kept = body /\ ~part.ellipsis /\ part.content_len = body
                /\ body > 2000 =>
                       part.kept = 2000 /\ part.ellipsis /\ part.content_len = 2000 + 3
                /\ part.ellipsis <=> part.kept < body

\* A body of exactly 2000 characters went in whole, next to one that was cut.
C18_Witness ==
    /\ probe.op = "assemble"
    /\ Len(probe.input.search_results) = 2
    /\ probe.input.search_results[1].content_len = 2000
    /\ ~probe.output.context[1].ellipsis
    /\ probe.input.search_results[2].content_len = 2001
    /\ probe.output.context[2].ellipsis

\* What the code adds to a body, title apart: "## ", "\n", "..." and the
\* separator between two parts.
SeparatorOverhead == 3 + 1 + 3 + JoinLength

\* C19 as stated: the context of a non-empty sequence of passages is at most
\* (2000 + separator overhead) x passage count long, the overhead being a
\* constant that does not depend on the titles or the bodies.
C19_ContextLengthBound ==
    (probe.op = "assemble" /\ probe.input.search_results # <<>>) =>
        probe.output.length
            <= (2000 + SeparatorOverhead) * Len(probe.input.search_results)

\* C20: a turn whose retrieval gave no passage has the empty string as its
\* context, and the system instruction of its prompt carries the
\* no-information marker in the context section, never an empty section; a
\* turn with passages carries its context there.
C20_NoInformationMarker ==
    \A t \in Tasks :
        Answered(t) =>
            LET section == turn[t].prompt[1].content.context
            IN  /\ turn[t].prompt[1].role = "system"
                /\ section.text = NoInfoMarker \/ section.parts # <<>>
                /\ turn[t].results = <<>> =>
                       /\ turn[t].context = <<>>
                       /\ section.text = NoInfoMarker
                       /\ section.parts = <<>>
                /\ turn[t].results # <<>> =>
                       /\ turn[t].context # <<>>
                       /\ section.text # NoInfoMarker
                       /\ section.parts = turn[t].context

\* An answer was generated after a search that returned no row.
C20_Witness ==
    \E t \in Tasks :
        /\ Answered(t)
        /\ turn[t].retrieved
        /\ turn[t].results = <<>>
        /\ "rpc_raised" \notin turn[t].failures
        /\ turn[t].prompt[1].content.context.text = NoInfoMarker

\* C21 as stated: every question that enters the pipeline has between 1 and
\* 2000 characters, whichever entry point it came through.
C21_QuestionLengthBounded ==
    (probe.op = "entry" /\ probe.output.entered) =>
        /\ probe.output.question_len >= 1
        /\ probe.output.question_len <= 2000

\* C22: whatever exception answer_question raises, the chat endpoint answers
\* with one of four fixed messages: 504 for a text with "timeout" (any
\* case), else 503 (AI service) for one with "HF API" or "embedding" (any
\* case), else 503 (language service) for one with "groq" (any case), else
\* 500; the detail is one of the fixed texts, never the exception's.
C22_FixedErrorMessages ==
    probe.op = "chat_error" =>
        LET text == probe.input.error_msg
            has(chunks) == \E i \in DOMAIN text : text[i] \in chunks
            timeout == has({"timeout", "Timeout"})
            ai == has({"HF API", "embedding", "Embedding"})
            groq == has({"groq", "GROQ"})
            out == probe.output
        IN  /\ out \in {Overloaded, AiUnavailable, LanguageUnavailable, ProcessingError}
            /\ timeout => out.status_code = 504 /\ out = Overloaded
            /\ (~timeout /\ ai) => out.status_code = 503 /\ out = AiUnavailable
            /\ (~timeout /\ ~ai /\ groq) => out.status_code = 503 /\ out = LanguageUnavailable
            /\ (~timeout /\ ~ai /\ ~groq) => out.status_code = 500 /\ out = ProcessingError
            /\ \A i \in DOMAIN text : out.detail # text[i]

\* An exception text with "GROQ" and then "Timeout" was answered with 504.
C22_Witness ==
    /\ probe.op = "chat_error"
    /\ probe.input.error_msg = <<"GROQ", "Timeout">>
    /\ probe.output = Overloaded

\* C23 (steps): the stored messages of a session change only in the update of
\* a turn on that session, and become exactly the history that turn read
\* followed by its own user/assistant pair, cut to the last 10; no other
\* session's messages change in that step.
C23_WriteStep ==
    \A s \in DOMAIN chat_sessions :
        chat_sessions'[s] # chat_sessions[s] =>
            \E t \in Tasks :
                LET own == <<[role |-> "user", content |-> turn[t].question],
                             [role |-> "assistant", content |-> turn[t].answer]>>
                    whole == turn[t].gen_history \o own
                IN  /\ turn[t].pc = "persist" /\ turn'[t].pc = "done"
                    /\ turn[t].session_id = s
                    /\ turn[t].found => turn[t].gen_history = turn[t].read
                    /\ chat_sessions'[s] =
                           IF Len(whole) <= 10 THEN whole
                           ELSE [i \in 1..10 |-> whole[Len(whole) - 10 + i]]
                    /\ \A o \in DOMAIN chat_sessions \ {s} : chat_sessions'[o] = chat_sessions[o]

\* C23: concurrent turns on one session identifier are last-write-wins: every
\* write replaces the stored list by the writer's whole list, so after both
\* turns the session holds what the last writer persisted, never a merged or
\* partial list, and the other sessions are as they were.
C23_LastWriteWins == [][C23_WriteStep]_vars

\* Two turns read the same history of one session and both wrote: the session
\* holds the list of one of them, without the exchange of the other.
C23_Witness ==
    /\ turn[1].pc = "done" /\ turn[2].pc = "done"
    /\ turn[1].session_id = turn[2].session_id
    /\ turn[1].found /\ turn[2].found
    /\ turn[1].read = turn[2].read
    /\ "update_raised" \notin turn[1].failures \cup turn[2].failures
    /\ chat_sessions[turn[1].session_id] = turn[2].chat_history
    /\ chat_sessions[turn[1].session_id] # turn[1].chat_history
    /\ Len(chat_sessions[turn[1].session_id]) = Len(turn[1].read) + 2

\* C24 (steps): a step builds a client only where the process has none, at
\* most one in a step, and a handle the process has is never replaced or
\* dropped: every later caller gets the handle built first.
C24_ConstructStep ==
    LET built(calls, name) == Cardinality({i \in DOMAIN calls : calls[i] = name})
    IN  /\ groq_client => groq_client'
        /\ supabase_client => supabase_client'
        /\ \A t \in Tasks :
                   /\ built(turn'[t].calls, "Groq") > built(turn[t].calls, "Groq") =>
                          /\ ~groq_client /\ groq_client'
                          /\ built(turn'[t].calls, "Groq") = built(turn[t].calls, "Groq") + 1
                   /\ built(turn'[t].calls, "create_client")
                          > built(turn[t].calls, "create_client") =>
                          /\ ~supabase_client /\ supabase_client'
                          /\ built(turn'[t].calls, "create_client")
                                 = built(turn[t].calls, "create_client") + 1

\* C24: with callers interleaving at their calls, the completion-provider
\* client and the store client are each built at most once in the process, and
\* every caller works with that one handle.
C24_ClientsBuiltOnce == [][C24_ConstructStep]_vars

\* Two turns in flight have both called the provider and the store; the
\* clients were built in the turn of worker 1 only.
C24_Witness ==
    /\ turn[1].pc = "persist" /\ turn[2].pc = "persist"
    /\ groq_client /\ supabase_client
    /\ Count(turn[1].calls, "Groq") = 1 /\ Count(turn[1].calls, "create_client") = 1
    /\ Count(turn[2].calls, "Groq") = 0 /\ Count(turn[2].calls, "create_client") = 0
    /\ Count(turn[2].calls, "completion:answer") = 1

\* C25 as stated: a turn whose get_session failed for the supplied identifier
\* is not fatal: it goes on as a new session and returns a response with a
\* newly minted identifier and an answer generated from an empty history.
C25_ReadFailureNotFatal ==
    \A t \in Tasks :
        "select_raised" \in turn[t].failures =>
            /\ turn[t].pc # "raised"
            /\ turn[t].pc = "done" =>
                   /\ turn[t].response.session_id = turn[t].created
                   /\ turn[t].created # turn[t].supplied
                   /\ turn[t].gen_history = <<>>

\* The order of the steps of a turn: from each position, the next ones.
StepOrder ==
    {<<"idle", "embed">>, <<"embed", "search">>, <<"search", "session">>,
     <<"session", "create">>, <<"session", "generate">>, <<"create", "generate">>,
     <<"generate", "suggest">>, <<"suggest", "persist">>, <<"persist", "done">>,
     <<"done", "idle">>, <<"raised", "idle">>}
        \cup {<<from, "raised">> : from \in {"embed", "search", "session", "create", "generate"}}

\* The calls of a turn without the construction of the clients.
ExternalCalls(t) ==
    LET external(call) == call \notin {"Groq", "create_client"}
    IN  SelectSeq(turn[t].calls, external)

\* The call sequences of a turn that returns, given whether the settings let
\* the completion calls reach the provider.
CompletedCalls(reaches_provider) ==
    { <<"encode_text", "vector_search">> \o resolve \o completion
          \o <<"update_session_messages">> :
      resolve \in {<<"get_session">>, <<"get_session", "create_session">>, <<"create_session">>},
      completion \in {IF reaches_provider THEN <<"completion:answer", "completion:suggest">>
                      ELSE <<>>} }

\* C26 (states): the calls of a turn that has returned are embed, retrieve,
\* session resolution (read, create, or read then create), the answer call,
\* the suggestion call and the update, each once and in that order.
C26_CallsInOrder ==
    \A t \in Tasks :
        turn[t].pc = "done" => ExternalCalls(t) \in CompletedCalls(env.reasoning_effort)

\* C26 (steps): a turn moves from one step to the next of the fixed order or
\* ends with an exception, one step at a time, and each step adds its own
\* calls after those made before it.
C26_OneStepAtATime ==
    \A t \in Tasks :
        turn'[t].pc # turn[t].pc =>
            /\ <<turn[t].pc, turn'[t].pc>> \in StepOrder
            /\ turn[t].pc # "idle" /\ turn'[t].pc # "idle" =>
                   /\ Len(turn'[t].calls) >= Len(turn[t].calls)
                   /\ SubSeq(turn'[t].calls, 1, Len(turn[t].calls)) = turn[t].calls

\* C26: within a turn the calls happen in the fixed order embed, retrieve,
\* session resolve, answer generation, suggestion generation, persist,
\* response; no step starts before the one before it has returned, none is
\* skipped in a turn that returns, none runs twice.
C26_FixedOrder == [](C26_CallsInOrder) /\ [][C26_OneStepAtATime]_vars

\* A turn returned after a read that found nothing, a create, both
\* completion calls and the update.
C26_Witness ==
    \E t \in Tasks :
        /\ turn[t].pc = "done"
        /\ ExternalCalls(t) = <<"encode_text", "vector_search", "get_session", "create_session",
                                "completion:answer", "completion:suggest",
                                "update_session_messages">>

\* C27 as stated: every completion request of a turn, the answer's and the
\* suggestions', is non-streaming and carries the model name, temperature,
\* top-p, maximum output tokens and reasoning effort of the settings.
C27_SettingsPassedThrough ==
    (probe.op = "completion" /\ probe.output.sent) =>
        LET settings == probe.input.settings
            request == probe.output
        IN  /\ ~request.stream
            /\ request.model = settings.groq_model_name
            /\ request.temperature = settings.rag_temperature
            /\ request.top_p = settings.rag_top_p
            /\ request.max_completion_tokens = settings.rag_max_completion_tokens
            /\ request.reasoning_effort = settings.rag_reasoning_effort

\* C28 (states): every stored list has an even number of messages, at most
\* 10, with the roles user, assistant, user, assistant, ... from the first.
C28_Alternating ==
    \A s \in DOMAIN chat_sessions :
        LET m == chat_sessions[s]
        IN  /\ Len(m) % 2 = 0
            /\ Len(m) <= 10
            /\ \A i \in DOMAIN m : m[i].role = IF i % 2 = 1 THEN "user" ELSE "assistant"

\* C28 (steps): a write stores whole pairs of the list the turn read, oldest
\* pairs dropped first, followed by the pair of the turn: its question and
\* the answer it returns.
C28_PairStep ==
    \A s \in DOMAIN chat_sessions :
        chat_sessions'[s] # chat_sessions[s] =>
            \E t \in Tasks :
                LET m == chat_sessions'[s]
                    before == turn[t].gen_history
                    kept == Len(m) - 2
                IN  /\ turn[t].session_id = s /\ turn'[t].pc = "done"
                    /\ Len(m) >= 2
                    /\ m[Len(m) - 1] = [role |-> "user", content |-> turn[t].question]
                    /\ m[Len(m)] = [role |-> "assistant", content |-> turn'[t].response.answer]
                    /\ kept <= Len(before) /\ (Len(before) - kept) % 2 = 0
                    /\ \A i \in 1..kept : m[i] = before[Len(before) - kept + i]

\* C28: in a store written only by answer_question, every session's list has
\* even length and alternates user, assistant from the start; the trim to
\* the last 10 never splits a pair, and each pair a turn stores is its
\* question and the answer it returned, a fallback answer included.
C28_WholePairs == [](C28_Alternating) /\ [][C28_PairStep]_vars

\* A turn on a history of 10 messages stored 10: the oldest pair was dropped,
\* and the answer of the stored pair is the error fallback.
C28_Witness ==
    \E t \in Tasks :
        /\ turn[t].pc = "done"
        /\ Len(turn[t].gen_history) = 10
        /\ "update_raised" \notin turn[t].failures
        /\ Len(chat_sessions[turn[t].session_id]) = 10
        /\ chat_sessions[turn[t].session_id][1] = turn[t].gen_history[3]
        /\ chat_sessions[turn[t].session_id][10].content = FallbackError

\* C29 (states): a turn that has returned made at most one create_session
\* call and exactly one update_session_messages call; the identifier of its
\* response is the session it read or the one it created, an existing row, and
\* is the supplied identifier only where that session was found.
C29_OneUpdate ==
    \A t \in Tasks :
        turn[t].pc = "done" =>
            /\ Count(turn[t].calls, "create_session") <= 1
            /\ Count(turn[t].calls, "update_session_messages") = 1
            /\ turn[t].response.session_id \in DOMAIN chat_sessions
            /\ turn[t].response.session_id =
                   IF turn[t].found THEN turn[t].supplied ELSE turn[t].created
            /\ ~turn[t].found =>
                   /\ Count(turn[t].calls, "create_session") = 1
                   /\ turn[t].response.session_id # turn[t].supplied

\* C29 (steps): the only row whose messages a step changes is the row of the
\* identifier the turn returns, in its update; a new row starts empty.
C29_FrameStep ==
    /\ \A s \in DOMAIN chat_sessions :
           chat_sessions'[s] # chat_sessions[s] =>
               \E t \in Tasks :
                   /\ turn[t].pc = "persist" /\ turn'[t].pc = "done"
                   /\ turn'[t].response.session_id = s
    /\ \A s \in DOMAIN chat_sessions' \ DOMAIN chat_sessions : chat_sessions'[s] = <<>>

\* C29: every turn that returns a response performs at most one
\* create_session and exactly one update_session_messages, on the session_id
\* of the response and never on a stale identifier the caller supplied; the
\* messages of every other session are unchanged by the turn.
C29_UpdateTargetsResponseSession == [](C29_OneUpdate) /\ [][C29_FrameStep]_vars

\* A turn given a stale identifier returned the identifier it created and
\* wrote its exchange there; the other session holds what it held before.
C29_Witness ==
    \E t \in Tasks :
        /\ turn[t].pc = "done"
        /\ turn[t].supplied = StaleSid
        /\ turn[t].response.session_id = "s2"
        /\ Len(chat_sessions["s2"]) = 2
        /\ chat_sessions["s1"] = Flatten(PriorLog)

\* C30 as stated: every Telegram turn that has ended minted a session, was
\* answered from an empty history without reading any session, and left
\* exactly 2 messages in the session it minted.
C30_TwoMessagesPerTelegramTurn ==
    \A t \in Tasks :
        (turn[t].platform = "telegram" /\ turn[t].pc \in {"done", "raised"}) =>
            /\ Count(turn[t].calls, "get_session") = 0
            /\ turn[t].gen_history = <<>>
            /\ turn[t].created \in DOMAIN chat_sessions
            /\ Len(chat_sessions[turn[t].created]) = 2

\* C30, amended (states): a Telegram turn has no session identifier and never
\* calls get_session; its answer is generated from an empty history, in a
\* session it created; when it returns, that session is the one of the
\* response and holds the 2 messages of the turn, or none where the update
\* failed; a turn ended by a failed insert created no session.
C30_TelegramTurnState ==
    \A t \in Tasks :
        turn[t].platform = "telegram" =>
            /\ turn[t].supplied = NoneSid
            /\ Count(turn[t].calls, "get_session") = 0
            /\ ~turn[t].found /\ turn[t].read = <<>>
            /\ Answered(t) =>
                   /\ turn[t].gen_history = <<>>
                   /\ turn[t].created \in DOMAIN chat_sessions
                   /\ Count(turn[t].calls, "create_session") = 1
            /\ turn[t].pc = "done" =>
                   /\ turn[t].response.session_id = turn[t].created
                   /\ chat_sessions[turn[t].created] =
                          IF "update_raised" \in turn[t].failures THEN <<>>
                          ELSE <<[role |-> "user", content |-> turn[t].question],
                                 [role |-> "assistant", content |-> turn[t].response.answer]>>
            /\ "insert_raised" \in turn[t].failures =>
                   turn[t].pc = "raised" /\ turn[t].created = NoneSid

\* C30, amended (steps): the create_session of a Telegram turn that succeeds
\* adds exactly one row, under an identifier the store did not have; no other
\* step of a Telegram turn adds a row.
C30_TelegramTurnStep ==
    \A t \in Tasks :
        (turn[t].platform = "telegram" /\ turn'[t] # turn[t]) =>
            IF turn[t].pc = "session" /\ turn'[t].pc = "generate"
            THEN /\ turn'[t].created \notin DOMAIN chat_sessions
                 /\ DOMAIN chat_sessions' = DOMAIN chat_sessions \cup {turn'[t].created}
            ELSE DOMAIN chat_sessions' = DOMAIN chat_sessions

\* C30, amended: every Telegram turn (free text or /itinerary) calls
\* answer_question without a session identifier, so it reads no history and
\* each one whose insert succeeds mints one new session; a turn that returns
\* leaves exactly its 2 messages there unless its update failed.
C30_TelegramTurnsMintSessions ==
    [](C30_TelegramTurnState) /\ [][C30_TelegramTurnStep]_vars

\* The second Telegram turn in a row returned: the store has two sessions of
\* exactly 2 messages, one per turn.
C30_Witness ==
    \E t \in Tasks :
        /\ turn[t].platform = "telegram" /\ turn[t].pc = "done"
        /\ turn[t].question = ItineraryQuestion
        /\ turn[t].created = "s2"
        /\ DOMAIN chat_sessions = {"s1", "s2"}
        /\ Len(chat_sessions["s1"]) = 2 /\ chat_sessions["s1"][1].content = "q1"
        /\ Len(chat_sessions["s2"]) = 2 /\ chat_sessions["s2"][1].content = ItineraryQuestion

====
